---- MODULE Spec2Model ----
(***************************************************************************)
(* Lifecycle of the two glow components of the repository:                 *)
(*   SunburstGlow        (src/src/components/SunburstGlow.tsx, WebGPU)      *)
(*   SunburstGlowWebGL2  (src/src/components/SunburstGlowWebGL2.tsx)        *)
(* One mounted component instance is modelled.  Every run of its effect    *)
(* (useEffect with deps [imageSrc, maxWidth]) is a closure with its own    *)
(* destroyed / root / gl / animationId; the runs are numbered 1..MaxRuns.  *)
(* An action is one synchronous stretch of JavaScript: the code between    *)
(* two awaits of init(), one requestAnimationFrame callback, or one React  *)
(* commit (effect cleanup followed by the next effect run).                *)
(***************************************************************************)
EXTENDS Integers, FiniteSets, Sequences, TLC

\* ------------------------------------------------------------------ bounds
\* number of effect runs of the instance (first mount + prop changes)
MaxRuns == 3
\* number of draws one effect run may issue
MaxTicks == 3
\* number of times the cleanup function of one run may be invoked (SpecDispose)
MaxCleanupCalls == 2
\* largest native width and height of an image (SpecSizing)
MaxDim == 9

Runs == 1..MaxRuns

\* ------------------------------------------------------------------ state
VARIABLES
  backend,          \* which component is mounted: "webgpu" | "webgl2"
  capable,          \* navigator.gpu present / getContext("webgl2") non-null
  mounted,          \* the component instance is mounted
  cur,              \* number of the latest effect run (0: effect not yet run)
  webGPUSupported,  \* useState<boolean | null>(null): "null" | "false"
  error,            \* useState<string | null>(null): "null" | message
  isLoading,        \* useState(true)
  pc,               \* per run: position of init() / the render loop
  destroyed,        \* per run: let destroyed
  root,             \* per run: let root (TRUE: non-null)
  gl,               \* per run: let gl (TRUE: non-null)
  animationId,      \* per run: let animationId (0: null)
  rafQueue,         \* requestAnimationFrame callbacks pending: {<<run, id>>}
  nextRafId,        \* next handle requestAnimationFrame returns
  acquired,         \* per run: backend resources created
  released,         \* per run: backend resources released
  destroyCalls,     \* per run: number of root.destroy() calls
  cleanupCalls,     \* per run: number of invocations of the cleanup function
  teardownAt,       \* per run: pc at the first cleanup ("none": not torn down)
  writes,           \* per run: number of uniform uploads
  draws,            \* per run: number of draw calls issued
  outcome,          \* per run: how init() ended
  awaits,           \* per run: image loads begun, backend initialisations
                    \* begun, and whether createImageBitmap has resolved
  imageBitmap,      \* native size of the decoded image: [width, height]
  maxWidth,         \* the maxWidth prop, a rational <<numerator, denominator>>
  canvas,           \* canvas.width, canvas.height (whole pixels)
  dimensions,       \* useState({ width: 800, height: 600 }), rationals
  fragment,         \* one invocation of the fragment shader: its inputs
  fragColor,        \* and what it wrote
  uncaught          \* an exception left a callback uncaught: "none"|"setup"|"tick"

vars == <<backend, capable, mounted, cur, webGPUSupported, error, isLoading,
          pc, destroyed, root, gl, animationId, rafQueue, nextRafId,
          acquired, released, destroyCalls, cleanupCalls, teardownAt,
          writes, draws, outcome, uncaught, awaits,
          imageBitmap, maxWidth, canvas, dimensions, fragment, fragColor>>

viewVars == <<webGPUSupported, error, isLoading>>
resVars == <<acquired, released, destroyCalls>>
loopVars == <<animationId, rafQueue, nextRafId, writes, draws>>
teardownVars == <<destroyed, cleanupCalls, teardownAt>>

Backends == {"webgpu", "webgl2"}

\* init() is suspended at an await
Pending == {"fetch", "blob", "decode", "gpuinit"}

\* resources created through the TypeGPU root, and the root itself
GPUSetupResources == {"contextConfig", "texture", "sampler", "uniformBuffer",
                      "bindGroup", "pipeline"}
\* resources created on the WebGL2 context
GLSetupResources == {"vertexShader", "fragmentShader", "program", "texture", "vao"}

\* messages of the errors a rejected await or a throwing call carries
\* (err.message, or "Unknown error" for a value that is no Error)
ThrownMessages == {"Failed to fetch", "Unknown error"}

\* JavaScript truthiness of the error state: null and "" are falsy
Truthy(s) == s \notin {"null", ""}

\* ------------------------------------------------------------- the view
\* what the component's render function returns
ShowsFallback ==
  /\ mounted
  /\ IF backend = "webgpu" THEN webGPUSupported = "false" ELSE Truthy(error)

ShowsCanvas == mounted /\ ~ShowsFallback

ShowsPlaceholder == mounted /\ ~ShowsFallback /\ isLoading

\* canvasRef.current: React attaches the ref while the canvas is rendered
CanvasRefCurrent == ShowsCanvas

View ==
  IF ~mounted THEN "unmounted"
  ELSE IF ShowsFallback THEN "fallback"
  ELSE IF ShowsPlaceholder THEN "loading"
  ELSE "shaded"

\* --------------------------------------------------------------- shading
\* 1.0 in the shaders' float values: numbers are held in ten-thousandths,
\* the precision .toFixed(4) writes into the GLSL source
Unit == 10000

\* SHADER CONSTANTS of SunburstGlow.tsx
SunburstGlowConstants ==
  [YOLK_CENTER_X |-> 5000, YOLK_CENTER_Y |-> 4600, YOLK_RADIUS |-> 500,
   RAY_COUNT |-> 100000, RAY_POWER |-> 15000, RAY_INTENSITY |-> 9000,
   WAVE_SPEED |-> 15000, WAVE_FREQUENCY |-> 400000,
   WAVE1_AMPLITUDE |-> 3000, WAVE1_BASE |-> 4000,
   WAVE1_SPEED_MULT |-> 40000, WAVE1_BLEND |-> 6000,
   WAVE2_AMPLITUDE |-> 2000, WAVE2_BASE |-> 8000,
   WAVE2_SPEED_MULT |-> 25000, WAVE2_FREQ_MULT |-> 5000,
   WAVE2_PHASE_OFFSET |-> 15000, WAVE2_BLEND |-> 4000,
   RAY_WAVE_BLEND |-> 6000, WAVE_ONLY_BLEND |-> 1500,
   GLOW_FALLOFF_RATE |-> 40000, GLOW_INTENSITY |-> 7000,
   OUTER_PULSE_FREQ |-> 12000, OUTER_PULSE_AMPLITUDE |-> 1000,
   OUTER_PULSE_BASE |-> 9000,
   BLOOM_FALLOFF_RATE |-> 100000, BLOOM_INTENSITY |-> 500,
   INNER_GLOW_INTENSITY |-> 1000, INNER_GLOW_PULSE_SPEED |-> 8000,
   INNER_GLOW_PULSE_AMOUNT |-> 3000,
   GLOW_COLOR_R |-> 10000, GLOW_COLOR_G |-> 7500, GLOW_COLOR_B |-> 3000]

\* SHADER CONSTANTS of SunburstGlowWebGL2.tsx
SunburstGlowWebGL2Constants ==
  [YOLK_CENTER_X |-> 5010, YOLK_CENTER_Y |-> 4600, YOLK_RADIUS |-> 550,
   RAY_COUNT |-> 100000, RAY_POWER |-> 100, RAY_INTENSITY |-> 8000,
   WAVE_SPEED |-> 3000, WAVE_FREQUENCY |-> 400000,
   WAVE1_AMPLITUDE |-> 3000, WAVE1_BASE |-> 4000,
   WAVE1_SPEED_MULT |-> 90000, WAVE1_BLEND |-> 6000,
   WAVE2_AMPLITUDE |-> 2000, WAVE2_BASE |-> 8000,
   WAVE2_SPEED_MULT |-> 25000, WAVE2_FREQ_MULT |-> 5000,
   WAVE2_PHASE_OFFSET |-> 15000, WAVE2_BLEND |-> 4000,
   RAY_WAVE_BLEND |-> 6000, WAVE_ONLY_BLEND |-> 1500,
   GLOW_FALLOFF_RATE |-> 10000, GLOW_INTENSITY |-> 4000,
   OUTER_PULSE_FREQ |-> 12000, OUTER_PULSE_AMPLITUDE |-> 1000,
   OUTER_PULSE_BASE |-> 9000,
   BLOOM_FALLOFF_RATE |-> 100000, BLOOM_INTENSITY |-> 1500,
   INNER_GLOW_INTENSITY |-> 1000, INNER_GLOW_PULSE_SPEED |-> 5000,
   INNER_GLOW_PULSE_AMOUNT |-> 3000,
   GLOW_COLOR_R |-> 10000, GLOW_COLOR_G |-> 7500, GLOW_COLOR_B |-> 3000]

\* the constants of the mounted component
ShaderConstants ==
  IF backend = "webgpu" THEN SunburstGlowConstants
                        ELSE SunburstGlowWebGL2Constants

\* uniforms.yolkCenter, uniforms.yolkRadius, uniforms.glowIntensity,
\* uniforms.glowColor as render() uploads them
Uniforms(K) ==
  [yolkCenter |-> <<K.YOLK_CENTER_X, K.YOLK_CENTER_Y>>,
   yolkRadius |-> K.YOLK_RADIUS,
   rayCount |-> K.RAY_COUNT,
   glowIntensity |-> K.GLOW_INTENSITY,
   glowColor |-> <<K.GLOW_COLOR_R, K.GLOW_COLOR_G, K.GLOW_COLOR_B>>]

\* float product
Mul(a, b) == (a * b) \div Unit

Max(a, b) == IF a >= b THEN a ELSE b

\* square root of a float that is a square of a quarter
Sqrt(x) == CHOOSE r \in {0, 2500, 5000, 7500, 10000} : r * r = x * Unit

\* pow(x, p) for x in [0, 1] and p > 0: 0 and 1 are fixed, and x to the
\* power 1.5 is x * sqrt(x)
Pow(x, p) ==
  CASE x = 0 -> 0
    [] x = Unit -> Unit
    [] x \notin {0, Unit} /\ 2 * p = 3 * Unit -> Mul(x, Sqrt(x))

\* a step that excludes the edge
StepStrict(edge, x) == IF x > edge THEN Unit ELSE 0

\* step(edge, x): 1.0 when x >= edge
Step(edge, x) == IF x >= edge THEN Unit ELSE 0

\* the fragment before a shader has been invoked
NoFragment ==
  [uv |-> <<0, 0>>, aspectRatio |-> <<1, 1>>, originalColor |-> <<0, 0, 0, 0>>,
   sinAngle |-> 0, sinWave1 |-> 0, sinWave2 |-> 0, sinPulse |-> 0,
   sinInner |-> 0, expGlow |-> Unit, expBloom |-> Unit]

NoColor ==
  [written |-> FALSE, outsideYolk |-> 0,
   glowContribution |-> <<0, 0, 0>>, bloomColor |-> <<0, 0, 0>>,
   innerGlowColor |-> <<0, 0, 0>>, color |-> <<0, 0, 0, 0>>]

\* correctedToYolk, with both components multiplied by the denominator of
\* the aspect ratio
CorrectedToYolk(u, f) ==
  <<(f.uv[1] - u.yolkCenter[1]) * f.aspectRatio[1],
    (f.uv[2] - u.yolkCenter[2]) * f.aspectRatio[2]>>

\* dist = length(correctedToYolk), squared and at the scale of
\* CorrectedToYolk; length is monotone, so dist compares as its square does
DistSquared(u, f) ==
  LET v == CorrectedToYolk(u, f) IN v[1] * v[1] + v[2] * v[2]

\* uniforms.yolkRadius squared, at the same scale
RadiusSquared(u, f) ==
  (u.yolkRadius * f.aspectRatio[2]) * (u.yolkRadius * f.aspectRatio[2])

\* max(0.0, dist - yolkRadius) is 0.0
AtOrInsideEdge(u, f) == DistSquared(u, f) <= RadiusSquared(u, f)

\* wave1 = sin(...) * WAVE1_AMPLITUDE + WAVE1_BASE
wave1(K, f) == Mul(f.sinWave1, K.WAVE1_AMPLITUDE) + K.WAVE1_BASE

\* wave 2 without its base brightness
wave2NoBase(K, f) == Mul(f.sinWave2, K.WAVE2_AMPLITUDE)

\* wave2 = sin(...) * WAVE2_AMPLITUDE + WAVE2_BASE
wave2(K, f) == Mul(f.sinWave2, K.WAVE2_AMPLITUDE) + K.WAVE2_BASE

\* radiatingWave = wave1 * WAVE1_BLEND + wave2 * WAVE2_BLEND
radiatingWave(K, f) ==
  Mul(wave1(K, f), K.WAVE1_BLEND) + Mul(wave2(K, f), K.WAVE2_BLEND)

\* rays = pow(max(0.0, sin(angle * rayCount)), RAY_POWER) * RAY_INTENSITY
rays(K, f) == Mul(Pow(Max(0, f.sinAngle), K.RAY_POWER), K.RAY_INTENSITY)

\* radiatingRays of SunburstGlow.tsx
radiatingRaysGPU(K, f) ==
  Mul(Mul(rays(K, f), radiatingWave(K, f)), K.RAY_WAVE_BLEND)
    + Mul(radiatingWave(K, f), K.WAVE_ONLY_BLEND)

\* radiatingRays of the GLSL source: no angular rays
radiatingRaysGL(K, f) == Mul(radiatingWave(K, f), K.RAY_INTENSITY)

\* exp(-effectiveDist * rate): 1.0 at effectiveDist 0.0
Exp(u, f, value) == IF AtOrInsideEdge(u, f) THEN Unit ELSE value

\* glowFalloff(dist, yolkRadius)
glowFalloff(u, f) == Exp(u, f, f.expGlow)

\* pulse = sin(time * OUTER_PULSE_FREQ) * OUTER_PULSE_AMPLITUDE + OUTER_PULSE_BASE
pulse(K, f) == Mul(f.sinPulse, K.OUTER_PULSE_AMPLITUDE) + K.OUTER_PULSE_BASE

\* outsideYolk = step(uniforms.yolkRadius, dist)
outsideYolk(u, f) == Step(RadiusSquared(u, f), DistSquared(u, f))

\* innerPulse = sin(time * INNER_GLOW_PULSE_SPEED) * INNER_GLOW_PULSE_AMOUNT
\*              + (1.0 - INNER_GLOW_PULSE_AMOUNT)
innerPulse(K, f) ==
  Mul(f.sinInner, K.INNER_GLOW_PULSE_AMOUNT) + (Unit - K.INNER_GLOW_PULSE_AMOUNT)

\* glowColor * s
Scale(c, s) == <<Mul(c[1], s), Mul(c[2], s), Mul(c[3], s)>>

\* the body of the fragment shader after rayIntensity
FragmentColor(K, f, rayIntensity) ==
  LET u == Uniforms(K)
      outside == outsideYolk(u, f)
      glowStrength ==
        Mul(Mul(Mul(Mul(rayIntensity, glowFalloff(u, f)), u.glowIntensity),
                pulse(K, f)), outside)
      glowContribution == Scale(u.glowColor, glowStrength)
      bloom ==
        Mul(Mul(Mul(Exp(u, f, f.expBloom), K.BLOOM_INTENSITY), pulse(K, f)),
            outside)
      bloomColor == Scale(u.glowColor, bloom)
      insideYolk == Unit - outside
      innerGlow == Mul(Mul(K.INNER_GLOW_INTENSITY, innerPulse(K, f)), insideYolk)
      innerGlowColor == Scale(u.glowColor, innerGlow)
      o == f.originalColor
  IN [written |-> TRUE,
      outsideYolk |-> outside,
      glowContribution |-> glowContribution,
      bloomColor |-> bloomColor,
      innerGlowColor |-> innerGlowColor,
      color |-> <<o[1] + glowContribution[1] + bloomColor[1] + innerGlowColor[1],
                  o[2] + glowContribution[2] + bloomColor[2] + innerGlowColor[2],
                  o[3] + glowContribution[3] + bloomColor[3] + innerGlowColor[3],
                  o[4]>>]

\* ------------------------------------------------------------------ init
\* the component after its first render, before its effect has run
InitComponent ==
  /\ backend \in Backends
  /\ capable \in BOOLEAN
  /\ mounted = TRUE
  /\ cur = 0
  /\ webGPUSupported = "null"
  /\ error = "null"
  /\ isLoading = TRUE
  /\ pc = [e \in Runs |-> "idle"]
  /\ destroyed = [e \in Runs |-> FALSE]
  /\ root = [e \in Runs |-> FALSE]
  /\ gl = [e \in Runs |-> FALSE]
  /\ animationId = [e \in Runs |-> 0]
  /\ rafQueue = {}
  /\ nextRafId = 1
  /\ acquired = [e \in Runs |-> {}]
  /\ released = [e \in Runs |-> {}]
  /\ destroyCalls = [e \in Runs |-> 0]
  /\ cleanupCalls = [e \in Runs |-> 0]
  /\ teardownAt = [e \in Runs |-> "none"]
  /\ writes = [e \in Runs |-> 0]
  /\ draws = [e \in Runs |-> 0]
  /\ outcome = [e \in Runs |-> "none"]
  /\ awaits = [e \in Runs |-> [image |-> 0, backend |-> 0, decoded |-> FALSE]]
  /\ uncaught = "none"
  /\ canvas = [width |-> 800, height |-> 600]
  /\ dimensions = [width |-> <<800, 1>>, height |-> <<600, 1>>]
  /\ fragColor = NoColor

\* one image, and maxWidth as src/src/App.tsx passes it
Init ==
  /\ InitComponent
  /\ imageBitmap = [width |-> 9, height |-> 7]
  /\ maxWidth = <<800, 1>>
  /\ fragment = NoFragment

\* ----------------------------------------------------- canvas sizing
Min(a, b) == IF a <= b THEN a ELSE b

\* const imageAspect = imageBitmap.width / imageBitmap.height
ImageAspect(img) == <<img.width, img.height>>

\* a width that forgets the cap of the native width
CanvasWidthNoMin(img, mw) == mw

\* const canvasWidth = Math.min(imageBitmap.width, maxWidth)
CanvasWidth(img, mw) == <<Min(img.width * mw[2], mw[1]), mw[2]>>

\* const canvasHeight = canvasWidth / imageAspect, as the exact quotient
CanvasHeight(cw, aspect) == <<cw[1] * aspect[2], cw[2] * aspect[1]>>

\* the double quotient canvasWidth / imageAspect lies just below an exactly
\* integral value: 9 / (9 / 7) = 6.999999999999999 in IEEE-754 doubles, the
\* one such case among sizes up to 11 and widths in halves
DoubleQuotientBelow(cw, aspect) == cw[1] = 9 * cw[2] /\ aspect = <<9, 7>>

\* canvas.width = x, canvas.height = x: the attribute is an unsigned long,
\* the fraction of a non-negative value is dropped
ToPixels(x) == x[1] \div x[2]

\* canvas.height = canvasHeight
CanvasHeightPixels(cw, aspect) ==
  LET q == CanvasHeight(cw, aspect)
  IN IF q[1] % q[2] = 0 /\ DoubleQuotientBelow(cw, aspect)
     THEN ToPixels(q) - 1
     ELSE ToPixels(q)

\* canvas.width = canvasWidth; canvas.height = canvasHeight;
\* setDimensions({ width: canvasWidth, height: canvasHeight })
SetupSizes ==
  LET aspect == ImageAspect(imageBitmap)
      cw == CanvasWidth(imageBitmap, maxWidth)
  IN /\ canvas' = [width |-> ToPixels(cw),
                   height |-> CanvasHeightPixels(cw, aspect)]
     /\ dimensions' = [width |-> cw, height |-> CanvasHeight(cw, aspect)]

\* ------------------------------------------------- React state setters
\* a state setter of an unmounted component does nothing

\* setError(msg); setIsLoading(false)
SetErrorGL(msg) ==
  /\ error' = IF mounted THEN msg ELSE error
  /\ isLoading' = IF mounted THEN FALSE ELSE isLoading
  /\ UNCHANGED webGPUSupported

\* a probe branch that clears the loading flag and forgets the fallback
SetLoadingOnlyGPU ==
  /\ isLoading' = IF mounted THEN FALSE ELSE isLoading
  /\ UNCHANGED <<webGPUSupported, error>>

\* setWebGPUSupported(false); setIsLoading(false)
SetUnsupportedGPU ==
  /\ webGPUSupported' = IF mounted THEN "false" ELSE webGPUSupported
  /\ isLoading' = IF mounted THEN FALSE ELSE isLoading
  /\ UNCHANGED error

\* a catch block that clears the loading flag and forgets the fallback
CatchGPULoadingOnly ==
  /\ isLoading' = IF mounted THEN FALSE ELSE isLoading
  /\ UNCHANGED <<webGPUSupported, error>>

\* the catch block of init(): setWebGPUSupported(false); setIsLoading(false)
CatchGPU ==
  /\ webGPUSupported' = IF mounted THEN "false" ELSE webGPUSupported
  /\ isLoading' = IF mounted THEN FALSE ELSE isLoading
  /\ UNCHANGED error

CatchGL(msg) == SetErrorGL(msg)

Catch(msg) == IF backend = "webgpu" THEN CatchGPU ELSE CatchGL(msg)

\* setIsLoading(false) at the end of a successful setup
SetLoaded ==
  /\ isLoading' = IF mounted THEN FALSE ELSE isLoading
  /\ UNCHANGED <<webGPUSupported, error>>

\* --------------------------------------------------- effect cleanup
\* a cleanup that forgets to set the flag
CleanupFlagNotSet(e) == destroyed

\* destroyed = true
CleanupFlag(e) == [destroyed EXCEPT ![e] = TRUE]

\* a cleanup that forgets to cancel the pending callback
CleanupRafNoCancel(e) == rafQueue

\* if (animationId !== null) cancelAnimationFrame(animationId)
CleanupRaf(e) ==
  IF animationId[e] # 0
  THEN {q \in rafQueue : q[2] # animationId[e]}
  ELSE rafQueue

\* if (root) root.destroy()   -- SunburstGlow only; the WebGL2 cleanup
\* releases nothing
CleanupDestroysRoot(e) == backend = "webgpu" /\ root[e]

\* the function the effect returns
Cleanup(e) ==
  /\ destroyed' = CleanupFlag(e)
  /\ rafQueue' = CleanupRaf(e)
  /\ IF CleanupDestroysRoot(e)
     THEN /\ released' = [released EXCEPT ![e] = acquired[e]]
          /\ destroyCalls' = [destroyCalls EXCEPT ![e] = @ + 1]
     ELSE UNCHANGED <<released, destroyCalls>>
  /\ cleanupCalls' = [cleanupCalls EXCEPT ![e] = @ + 1]
  /\ teardownAt' = [teardownAt EXCEPT ![e] = IF @ = "none" THEN pc[e] ELSE @]

\* ------------------------------------------- init(), up to its first await
\* SunburstGlow: canvas check, navigator.gpu probe, fetch(imageSrc)
InitStartGPU(e) ==
  /\ UNCHANGED gl
  /\ IF ~CanvasRefCurrent
     THEN /\ pc' = [pc EXCEPT ![e] = "done"]
          /\ outcome' = [outcome EXCEPT ![e] = "nocanvas"]
          /\ UNCHANGED <<viewVars, awaits>>
     ELSE IF ~capable
     THEN /\ SetUnsupportedGPU
          /\ pc' = [pc EXCEPT ![e] = "done"]
          /\ outcome' = [outcome EXCEPT ![e] = "unsupported"]
          /\ UNCHANGED awaits
     ELSE /\ pc' = [pc EXCEPT ![e] = "fetch"]
          /\ outcome' = [outcome EXCEPT ![e] = "running"]
          /\ awaits' = [awaits EXCEPT ![e].image = @ + 1]
          /\ UNCHANGED viewVars

\* SunburstGlowWebGL2: canvas check, getContext("webgl2"), fetch(imageSrc)
InitStartGL(e) ==
  IF ~CanvasRefCurrent
  THEN /\ pc' = [pc EXCEPT ![e] = "done"]
       /\ outcome' = [outcome EXCEPT ![e] = "nocanvas"]
       /\ UNCHANGED <<gl, viewVars, awaits>>
  ELSE /\ gl' = [gl EXCEPT ![e] = capable]
       /\ IF ~capable
          THEN /\ SetErrorGL("WebGL2 is not supported")
               /\ pc' = [pc EXCEPT ![e] = "done"]
               /\ outcome' = [outcome EXCEPT ![e] = "unsupported"]
               /\ awaits' = [awaits EXCEPT ![e].backend = @ + 1]
          ELSE /\ pc' = [pc EXCEPT ![e] = "fetch"]
               /\ outcome' = [outcome EXCEPT ![e] = "running"]
               /\ awaits' = [awaits EXCEPT ![e].backend = @ + 1,
                                          ![e].image = @ + 1]
               /\ UNCHANGED viewVars

\* one run of the effect body: fresh closure variables, then init()
StartEffect(e) ==
  /\ cur' = e
  /\ IF backend = "webgpu" THEN InitStartGPU(e) ELSE InitStartGL(e)

\* ------------------------------------------------------ React commits
\* first commit: the effect runs for the first time
Mount ==
  /\ mounted
  /\ cur = 0
  /\ StartEffect(1)
  /\ UNCHANGED <<backend, capable, fragment, fragColor, imageBitmap, maxWidth, canvas, dimensions, mounted, root, uncaught>>
  /\ UNCHANGED <<teardownVars, loopVars, resVars>>

\* imageSrc or maxWidth changed: cleanup of the old run, then a new run
PropsChange ==
  /\ mounted
  /\ cur \in 1..(MaxRuns - 1)
  /\ Cleanup(cur)
  /\ StartEffect(cur + 1)
  /\ UNCHANGED <<backend, capable, fragment, fragColor, imageBitmap, maxWidth, canvas, dimensions, mounted, root, uncaught>>
  /\ UNCHANGED <<animationId, nextRafId, writes, draws, acquired>>

\* the component is removed: cleanup of the current run
Unmount ==
  /\ mounted
  /\ cur \in Runs
  /\ Cleanup(cur)
  /\ mounted' = FALSE
  /\ UNCHANGED <<backend, capable, fragment, fragColor, imageBitmap, maxWidth, canvas, dimensions, awaits, cur, viewVars, pc, outcome, root, gl, uncaught>>
  /\ UNCHANGED <<animationId, nextRafId, writes, draws, acquired>>

\* ------------------------------------------------ init(), image loading
\* await fetch(imageSrc) resolves; response.blob() is called
FetchResolve(e) ==
  /\ pc[e] = "fetch"
  /\ pc' = [pc EXCEPT ![e] = "blob"]
  /\ UNCHANGED <<backend, capable, fragment, fragColor, imageBitmap, maxWidth, canvas, dimensions, awaits, mounted, cur, viewVars, outcome, root, gl, uncaught>>
  /\ UNCHANGED <<teardownVars, loopVars, resVars>>

\* await response.blob() resolves; createImageBitmap(blob) is called
BlobResolve(e) ==
  /\ pc[e] = "blob"
  /\ pc' = [pc EXCEPT ![e] = "decode"]
  /\ UNCHANGED <<backend, capable, fragment, fragColor, imageBitmap, maxWidth, canvas, dimensions, awaits, mounted, cur, viewVars, outcome, root, gl, uncaught>>
  /\ UNCHANGED <<teardownVars, loopVars, resVars>>

\* a rejected await that starts the image load over instead of failing
AwaitRejectRetries(e) ==
  /\ pc[e] \in Pending
  /\ pc' = [pc EXCEPT ![e] = "fetch"]
  /\ awaits' = [awaits EXCEPT ![e].image = @ + 1]
  /\ UNCHANGED <<backend, capable, fragment, fragColor, imageBitmap, maxWidth, canvas, dimensions, mounted, cur, viewVars, outcome, root, gl, uncaught>>
  /\ UNCHANGED <<teardownVars, loopVars, resVars>>

\* an awaited promise rejects (fetch, blob, createImageBitmap, tgpu.init):
\* control enters the catch block, whatever the destroyed flag says
AwaitReject(e) ==
  /\ pc[e] \in Pending
  /\ \E msg \in ThrownMessages : Catch(msg)
  /\ pc' = [pc EXCEPT ![e] = "done"]
  /\ outcome' = [outcome EXCEPT ![e] = "failed"]
  /\ UNCHANGED <<backend, capable, fragment, fragColor, imageBitmap, maxWidth, canvas, dimensions, awaits, mounted, cur, root, gl, uncaught>>
  /\ UNCHANGED <<teardownVars, loopVars, resVars>>

\* ------------------------------------------------- the render loop
\* if (destroyed || !root || !context) return    (SunburstGlow)
\* if (destroyed || !gl || !canvas) return       (SunburstGlowWebGL2)
RenderReturns(e) ==
  \/ destroyed[e]
  \/ backend = "webgpu" /\ ~root[e]
  \/ backend = "webgl2" /\ ~gl[e]

\* the body of render() past its first line, when nothing throws: upload
\* the uniforms, draw, animationId = requestAnimationFrame(render)
RenderFrame(e, queue) ==
  /\ writes' = [writes EXCEPT ![e] = @ + 1]
  /\ draws' = [draws EXCEPT ![e] = @ + 1]
  /\ animationId' = [animationId EXCEPT ![e] = nextRafId]
  /\ rafQueue' = queue \cup {<<e, nextRafId>>}
  /\ nextRafId' = nextRafId + 1

\* render() throws at the draw, after the uniform upload and before
\* requestAnimationFrame
RenderThrows(e, queue) ==
  /\ writes' = [writes EXCEPT ![e] = @ + 1]
  /\ rafQueue' = queue
  /\ UNCHANGED <<draws, animationId, nextRafId>>

\* ---------------------------------- init(), after the image is decoded
\* a setup that goes on without looking at the flag
AbandonNever(e) == FALSE

\* if (destroyed) return    after await createImageBitmap(blob)
AbandonAfterDecode(e) == destroyed[e]

\* if (destroyed) return    after root = await tgpu.init()
AbandonAfterInit(e) == destroyed[e]

Abandon(e) ==
  /\ pc' = [pc EXCEPT ![e] = "done"]
  /\ outcome' = [outcome EXCEPT ![e] = "abandoned"]

Fail(e) ==
  /\ pc' = [pc EXCEPT ![e] = "done"]
  /\ outcome' = [outcome EXCEPT ![e] = "failed"]

\* SunburstGlow: createImageBitmap resolves; the canvas is sized and
\* tgpu.init() is called
InitDecodedGPU(e) ==
  /\ backend = "webgpu"
  /\ pc[e] = "decode"
  /\ IF AbandonAfterDecode(e)
     THEN /\ Abandon(e)
          /\ awaits' = [awaits EXCEPT ![e].decoded = TRUE]
          /\ UNCHANGED <<canvas, dimensions>>
     ELSE /\ SetupSizes
          /\ pc' = [pc EXCEPT ![e] = "gpuinit"]
          /\ awaits' = [awaits EXCEPT ![e].decoded = TRUE,
                                     ![e].backend = @ + 1]
          /\ UNCHANGED outcome
  /\ UNCHANGED <<backend, capable, fragment, fragColor, imageBitmap, maxWidth, mounted, cur, viewVars, root, gl, uncaught>>
  /\ UNCHANGED <<teardownVars, loopVars, resVars>>

\* results of the synchronous rest of the WebGPU setup
GPUSetupResults == {"ok", "nocontext", "drawthrows"}

\* SunburstGlow: tgpu.init() resolves; context, texture, sampler, buffer,
\* bind group, pipeline, setIsLoading(false), first render()
InitDeviceGPU(e) ==
  /\ backend = "webgpu"
  /\ pc[e] = "gpuinit"
  /\ root' = [root EXCEPT ![e] = TRUE]
  /\ UNCHANGED <<backend, capable, fragment, fragColor, imageBitmap, maxWidth, canvas, dimensions, awaits, mounted, cur, gl, uncaught>>
  /\ UNCHANGED <<teardownVars, released, destroyCalls>>
  /\ IF AbandonAfterInit(e)
     THEN /\ Abandon(e)
          /\ acquired' = [acquired EXCEPT ![e] = @ \cup {"root"}]
          /\ UNCHANGED <<viewVars, loopVars>>
     ELSE \E result \in GPUSetupResults :
            CASE result = "nocontext" ->
                   \* canvas.getContext("webgpu") is null: throw
                   /\ acquired' = [acquired EXCEPT ![e] = @ \cup {"root"}]
                   /\ \E msg \in ThrownMessages : Catch(msg)
                   /\ Fail(e)
                   /\ UNCHANGED loopVars
              [] result = "drawthrows" ->
                   /\ acquired' = [acquired EXCEPT ![e] =
                                     @ \cup {"root"} \cup GPUSetupResources]
                   /\ RenderThrows(e, rafQueue)
                   /\ \E msg \in ThrownMessages : Catch(msg)
                   /\ Fail(e)
              [] result = "ok" ->
                   /\ acquired' = [acquired EXCEPT ![e] =
                                     @ \cup {"root"} \cup GPUSetupResources]
                   /\ SetLoaded
                   /\ RenderFrame(e, rafQueue)
                   /\ pc' = [pc EXCEPT ![e] = "loop"]
                   /\ outcome' = [outcome EXCEPT ![e] = "ready"]

\* results of the synchronous rest of the WebGL2 setup
GLSetupResults == {"ok", "vsfail", "fsfail", "linkfail", "drawthrows"}

\* SunburstGlowWebGL2: createImageBitmap resolves; the canvas is sized,
\* shaders compiled, program linked, texture and vertex array created,
\* setIsLoading(false), first render()
InitDecodedGL(e) ==
  /\ backend = "webgl2"
  /\ pc[e] = "decode"
  /\ awaits' = [awaits EXCEPT ![e].decoded = TRUE]
  /\ UNCHANGED <<backend, capable, fragment, fragColor, imageBitmap, maxWidth, mounted, cur, root, gl, uncaught>>
  /\ UNCHANGED <<teardownVars, destroyCalls>>
  /\ IF AbandonAfterDecode(e)
     THEN /\ Abandon(e)
          /\ UNCHANGED <<viewVars, loopVars, acquired, released, canvas, dimensions>>
     ELSE /\ SetupSizes
          /\ \E result \in GLSetupResults :
            CASE result = "vsfail" ->
                   \* compileShader deletes the shader that failed; the
                   \* fragment shader is compiled all the same
                   /\ acquired' = [acquired EXCEPT ![e] =
                                     @ \cup {"vertexShader", "fragmentShader"}]
                   /\ released' = [released EXCEPT ![e] = @ \cup {"vertexShader"}]
                   /\ SetErrorGL("Failed to compile shaders")
                   /\ Fail(e)
                   /\ UNCHANGED loopVars
              [] result = "fsfail" ->
                   /\ acquired' = [acquired EXCEPT ![e] =
                                     @ \cup {"vertexShader", "fragmentShader"}]
                   /\ released' = [released EXCEPT ![e] = @ \cup {"fragmentShader"}]
                   /\ SetErrorGL("Failed to compile shaders")
                   /\ Fail(e)
                   /\ UNCHANGED loopVars
              [] result = "linkfail" ->
                   \* createProgram deletes the program that failed to link
                   /\ acquired' = [acquired EXCEPT ![e] =
                                     @ \cup {"vertexShader", "fragmentShader", "program"}]
                   /\ released' = [released EXCEPT ![e] = @ \cup {"program"}]
                   /\ SetErrorGL("Failed to create program")
                   /\ Fail(e)
                   /\ UNCHANGED loopVars
              [] result = "drawthrows" ->
                   /\ acquired' = [acquired EXCEPT ![e] = @ \cup GLSetupResources]
                   /\ UNCHANGED released
                   /\ RenderThrows(e, rafQueue)
                   /\ \E msg \in ThrownMessages : Catch(msg)
                   /\ Fail(e)
              [] result = "ok" ->
                   /\ acquired' = [acquired EXCEPT ![e] = @ \cup GLSetupResources]
                   /\ UNCHANGED released
                   /\ SetLoaded
                   /\ RenderFrame(e, rafQueue)
                   /\ pc' = [pc EXCEPT ![e] = "loop"]
                   /\ outcome' = [outcome EXCEPT ![e] = "ready"]

\* ------------------------------------- requestAnimationFrame callbacks
\* a pending callback fires and render() completes
Tick(q) ==
  /\ q \in rafQueue
  /\ IF RenderReturns(q[1])
     THEN /\ rafQueue' = rafQueue \ {q}
          /\ UNCHANGED <<animationId, nextRafId, writes, draws>>
     ELSE /\ draws[q[1]] < MaxTicks
          /\ RenderFrame(q[1], rafQueue \ {q})
  /\ UNCHANGED <<backend, capable, fragment, fragColor, imageBitmap, maxWidth, canvas, dimensions, awaits, mounted, cur, viewVars, pc, outcome, root, gl, uncaught>>
  /\ UNCHANGED <<teardownVars, resVars>>

\* a pending callback fires and render() throws: the callback is outside
\* init()'s try block, the exception is uncaught and the loop ends
TickThrow(q) ==
  /\ q \in rafQueue
  /\ ~RenderReturns(q[1])
  /\ RenderThrows(q[1], rafQueue \ {q})
  /\ pc' = [pc EXCEPT ![q[1]] = "crashed"]
  /\ uncaught' = "tick"
  /\ UNCHANGED <<backend, capable, fragment, fragColor, imageBitmap, maxWidth, canvas, dimensions, awaits, mounted, cur, viewVars, outcome, root, gl>>
  /\ UNCHANGED <<teardownVars, resVars>>

\* the cleanup function of a run is invoked once more
CleanupAgain(e) ==
  /\ cleanupCalls[e] \in 1..(MaxCleanupCalls - 1)
  /\ Cleanup(e)
  /\ UNCHANGED <<backend, capable, fragment, fragColor, imageBitmap, maxWidth, canvas, dimensions, awaits, mounted, cur, viewVars, pc, outcome, root, gl, uncaught>>
  /\ UNCHANGED <<animationId, nextRafId, writes, draws, acquired>>

\* ------------------------------------------------------ specifications
Next ==
  \/ Mount
  \/ PropsChange
  \/ Unmount
  \/ \E e \in Runs : FetchResolve(e)
  \/ \E e \in Runs : BlobResolve(e)
  \/ \E e \in Runs : AwaitReject(e)
  \/ \E e \in Runs : InitDecodedGPU(e)
  \/ \E e \in Runs : InitDeviceGPU(e)
  \/ \E e \in Runs : InitDecodedGL(e)
  \/ \E q \in rafQueue : Tick(q)
  \/ \E q \in rafQueue : TickThrow(q)

\* React invokes each cleanup function once
Spec == Init /\ [][Next]_vars

NextDispose == Next \/ \E e \in Runs : CleanupAgain(e)

\* the cleanup function may be invoked again by its holder
SpecDispose == Init /\ [][NextDispose]_vars

\* images of every small size, and maxWidth in halves up to past the
\* largest width
InitSizing ==
  /\ InitComponent
  /\ imageBitmap \in [width : 1..MaxDim, height : 1..MaxDim]
  /\ maxWidth \in {<<n, 2>> : n \in 1..(2 * MaxDim + 2)}
  /\ fragment = NoFragment

\* the first effect run up to the sizing of the canvas
NextSizing ==
  \/ Mount
  \/ \E e \in Runs : FetchResolve(e)
  \/ \E e \in Runs : BlobResolve(e)
  \/ \E e \in Runs : InitDecodedGPU(e)
  \/ \E e \in Runs : InitDecodedGL(e)

SpecSizing == InitSizing /\ [][NextSizing]_vars

\* texture coordinates at, inside and outside the edge of either yolk
UVs ==
  {<<5000, 4600>>, <<5010, 4600>>, <<5200, 4700>>, <<5000, 5100>>,
   <<5010, 5150>>, <<5300, 5000>>, <<5340, 5040>>, <<6000, 4600>>,
   <<0, 0>>, <<10000, 10000>>}

\* sampled texels
Texels == {<<0, 0, 0, 0>>, <<2000, 5000, 10000, 5000>>}

\* values of a sine: its extremes and zero
SinValues == {0 - Unit, 0, Unit}

\* values of exp(-x) for x > 0 in float arithmetic, which underflows to 0.0
ExpValues == {0, 1, Unit \div 2}

\* every fragment of the sets above; what a shader does not read is left
\* at its default
Fragments ==
  {f \in [uv : UVs,
          aspectRatio : {ImageAspect(imageBitmap)},
          originalColor : Texels,
          sinAngle : SinValues \cup {Unit \div 4},
          sinWave1 : SinValues,
          sinWave2 : {0 - Unit, Unit},
          sinPulse : {0 - Unit, Unit},
          sinInner : SinValues,
          expGlow : ExpValues \cup {Unit},
          expBloom : ExpValues \cup {Unit}] :
     /\ backend = "webgl2" => f.sinAngle = 0
     /\ f.expBloom <= f.expGlow
     /\ (f.expGlow = Unit) = AtOrInsideEdge(Uniforms(ShaderConstants), f)
     /\ (f.expBloom = Unit) = AtOrInsideEdge(Uniforms(ShaderConstants), f)}

\* one fragment of a square, a wide or a tall image, not yet shaded
InitShade ==
  /\ InitComponent
  /\ capable = TRUE
  /\ imageBitmap \in {[width |-> 1, height |-> 1], [width |-> 3, height |-> 2],
                      [width |-> 1, height |-> 2]}
  /\ maxWidth = <<800, 1>>
  /\ fragment \in Fragments

\* fragmentMain of SunburstGlow.tsx
fragmentMain ==
  /\ backend = "webgpu"
  /\ ~fragColor.written
  /\ fragColor' = FragmentColor(ShaderConstants, fragment,
                                radiatingRaysGPU(ShaderConstants, fragment))
  /\ UNCHANGED <<backend, capable, mounted, cur, pc, root, gl, outcome,
                 uncaught, awaits, imageBitmap, maxWidth, canvas, dimensions,
                 fragment>>
  /\ UNCHANGED <<viewVars, resVars, loopVars, teardownVars>>

\* main of FRAGMENT_SHADER in SunburstGlowWebGL2.tsx
main ==
  /\ backend = "webgl2"
  /\ ~fragColor.written
  /\ fragColor' = FragmentColor(ShaderConstants, fragment,
                                radiatingRaysGL(ShaderConstants, fragment))
  /\ UNCHANGED <<backend, capable, mounted, cur, pc, root, gl, outcome,
                 uncaught, awaits, imageBitmap, maxWidth, canvas, dimensions,
                 fragment>>
  /\ UNCHANGED <<viewVars, resVars, loopVars, teardownVars>>

NextShade == fragmentMain \/ main

SpecShade == InitShade /\ [][NextShade]_vars

\* ------------------------------------------------------------ claims
\* the cleanup function of run e has been invoked
TornDown(e) == cleanupCalls[e] > 0

\* resources with a release operation (root.destroy(), gl.delete*)
ReleasableResources ==
  {"root", "texture", "sampler", "uniformBuffer",
   "vertexShader", "fragmentShader", "program", "vao"}

\* C1: once the cleanup of an effect run has run, that run never again
\* uploads a uniform, issues a draw or schedules a tick.
C1_NoRedrawAfterTeardown ==
  [][\A e \in Runs :
       TornDown(e) =>
         /\ writes'[e] = writes[e]
         /\ draws'[e] = draws[e]
         /\ \A q \in rafQueue' : q[1] = e => q \in rafQueue]_vars

\* a run torn down in the middle of its animation
C1_Witness ==
  \E e \in Runs : TornDown(e) /\ teardownAt[e] = "loop" /\ draws[e] >= 2

\* C2: once a run is torn down and its setup is no longer suspended, every
\* releasable resource it acquired has been released.
C2_AllReleasedAfterTeardown ==
  \A e \in Runs :
    (TornDown(e) /\ pc[e] \notin Pending) =>
      (acquired[e] \cap ReleasableResources) \subseteq released[e]

\* C3: teardown is idempotent: no run ever sees a second release call, a
\* run torn down while running has had exactly one release call that
\* released what it acquired, and a run torn down once while its setup was
\* still suspended has had none.
C3_TeardownIdempotent ==
  \A e \in Runs :
    /\ destroyCalls[e] <= 1
    /\ (TornDown(e) /\ teardownAt[e] = "loop") =>
         /\ destroyCalls[e] = 1
         /\ (acquired[e] \cap ReleasableResources) \subseteq released[e]
    /\ (cleanupCalls[e] = 1 /\ teardownAt[e] \in Pending) => destroyCalls[e] = 0

\* C4: a setup torn down while suspended at an await creates nothing when
\* it resumes: no context configuration, texture, sampler, buffer, bind
\* group, pipeline, shader, program or vertex array, no uniform upload, no
\* draw and no tick (the root is what a pending tgpu.init() itself yields).
C4_NoWorkAfterCancelledSetup ==
  \A e \in Runs :
    (teardownAt[e] \in Pending) =>
      /\ acquired[e] \subseteq (IF teardownAt[e] = "gpuinit" THEN {"root"} ELSE {})
      /\ writes[e] = 0
      /\ draws[e] = 0
      /\ animationId[e] = 0
      /\ pc[e] # "loop"
      /\ \A q \in rafQueue : q[1] # e

\* a setup torn down while suspended has resumed successfully and returned
C4_Witness ==
  \E e \in Runs :
    teardownAt[e] \in Pending /\ pc[e] = "done" /\ outcome[e] = "abandoned"

C6_UnsupportedFallsBack ==
  (~capable /\ cur >= 1) =>
    /\ mounted => (ShowsFallback /\ ~ShowsPlaceholder)
    /\ \A e \in Runs : pc[e] \in {"idle", "done"} /\ draws[e] = 0 /\ writes[e] = 0
    /\ rafQueue = {}
    /\ uncaught = "none"

\* the probe failed on the first run and the effect has run again since
C6_Witness ==
  ~capable /\ mounted /\ cur >= 2 /\ outcome[1] = "unsupported"

\* C7: once the fallback is shown it stays shown while mounted, and no
\* image fetch, backend initialization or redraw loop starts afterwards.
C7_FailureTerminal ==
  [][ShowsFallback =>
       /\ (ShowsFallback' \/ ~mounted')
       /\ \A e \in Runs :
            pc'[e] \in {"fetch", "gpuinit", "loop"} => pc'[e] = pc[e]]_vars

\* C8: the placeholder and the fallback image are never shown together,
\* and while the fallback image is shown no redraw callback is pending.
C8_NoMixedView ==
  /\ ~(ShowsFallback /\ ShowsPlaceholder)
  /\ ShowsFallback => rafQueue = {}

\* C9: while the setup of the current run of a mounted instance that has
\* not failed is in progress (a first setup or one a prop change started),
\* the view is Loading with the placeholder shown.
C9_LoadingWhileSetup ==
  \A e \in Runs :
    (mounted /\ ~ShowsFallback /\ e = cur /\ ~TornDown(e) /\ pc[e] \in Pending) =>
      (View = "loading" /\ ShowsPlaceholder)

\* C10: at most one redraw callback is pending in the instance, and a run
\* whose loop is running and not torn down has exactly one, the one its
\* last tick requested.
C10_OnePendingTick ==
  /\ Cardinality(rafQueue) <= 1
  /\ \A e \in Runs :
       (pc[e] = "loop" /\ ~TornDown(e)) => rafQueue = {<<e, animationId[e]>>}

\* a loop running after an effect re-run that tore down a running loop
C10_Witness ==
  \E e \in Runs :
    /\ e >= 2
    /\ pc[e] = "loop" /\ ~TornDown(e) /\ draws[e] >= 2
    /\ teardownAt[e - 1] = "loop"

\* the backend of run e is initialised: device or context, program or
\* pipeline, texture
BackendInitialised(e) ==
  IF backend = "webgpu"
  THEN root[e] /\ GPUSetupResources \subseteq acquired[e]
  ELSE gl[e] /\ GLSetupResources \subseteq acquired[e]

\* run e has uploaded, drawn or scheduled a tick
HasRendered(e) ==
  \/ writes[e] > 0
  \/ draws[e] > 0
  \/ animationId[e] # 0
  \/ \E q \in rafQueue : q[1] = e

\* C11: a run that has uploaded, drawn or scheduled a tick has its image
\* decoded and its backend initialised, and no run begins its image load or
\* its backend initialisation more than once.
C11_RenderAfterBothAwaits ==
  \A e \in Runs :
    /\ awaits[e].image <= 1
    /\ awaits[e].backend <= 1
    /\ HasRendered(e) =>
         /\ awaits[e].decoded
         /\ BackendInitialised(e)
         /\ awaits[e].image = 1
         /\ awaits[e].backend = 1

\* a run is drawing after both steps completed
C11_Witness ==
  \E e \in Runs :
    pc[e] = "loop" /\ draws[e] >= 2 /\ awaits[e].decoded /\ BackendInitialised(e)

\* C12 as stated: whenever setup sets the canvas size, the width equals
\* min(w, maxWidth) and width * h = height * w.
C12_ExactSizing ==
  [][canvas' # canvas =>
       /\ canvas'.width * maxWidth[2]
            = Min(imageBitmap.width * maxWidth[2], maxWidth[1])
       /\ canvas'.width * imageBitmap.height
            = canvas'.height * imageBitmap.width]_vars

\* C12, amended: whenever setup sets the canvas size, the width is
\* min(w, maxWidth) with its fraction dropped, so it exceeds neither maxWidth
\* nor w, and the height is the aspect-preserving height of the unrounded
\* width to within one pixel: at most it, and more than it minus one, or
\* it minus one exactly when it is a whole number.
C12_SizingToPixel ==
  [][canvas' # canvas =>
       LET w == imageBitmap.width
           h == imageBitmap.height
           cwNum == Min(w * maxWidth[2], maxWidth[1])
           den == maxWidth[2]
           W == canvas'.width
           H == canvas'.height
       IN /\ W * den <= cwNum /\ cwNum < (W + 1) * den
          /\ W <= w
          /\ W * den <= maxWidth[1]
          /\ H * den * w <= cwNum * h
          /\ cwNum * h <= (H + 1) * den * w]_vars

\* setup has sized the canvas of an image wider than maxWidth whose
\* aspect-preserving height is not a whole number
C12_Witness ==
  /\ canvas # [width |-> 800, height |-> 600]
  /\ imageBitmap.width * maxWidth[2] > maxWidth[1]
  /\ canvas.width * imageBitmap.height # canvas.height * imageBitmap.width
  /\ \E e \in Runs : awaits[e].decoded /\ ~destroyed[e]

\* the fragment lies strictly inside the yolk radius
StrictlyInside ==
  DistSquared(Uniforms(ShaderConstants), fragment)
    < RadiusSquared(Uniforms(ShaderConstants), fragment)

\* the fragment lies at exactly the yolk radius
OnEdge ==
  DistSquared(Uniforms(ShaderConstants), fragment)
    = RadiusSquared(Uniforms(ShaderConstants), fragment)

\* C13: in both shaders a fragment strictly inside the radius gets mask 0,
\* glow and bloom contributions of exactly 0 in all three channels, so only
\* the inner glow is added; a fragment at exactly the radius gets mask 1
\* and an inner glow of 0.
C13_MaskAtRadius ==
  fragColor.written =>
    /\ StrictlyInside =>
         /\ fragColor.outsideYolk = 0
         /\ fragColor.glowContribution = <<0, 0, 0>>
         /\ fragColor.bloomColor = <<0, 0, 0>>
         /\ \A c \in 1..3 :
              fragColor.color[c]
                = fragment.originalColor[c] + fragColor.innerGlowColor[c]
    /\ OnEdge =>
         /\ fragColor.outsideYolk = Unit
         /\ fragColor.innerGlowColor = <<0, 0, 0>>

\* the WebGL2 shader has shaded a fragment at exactly the radius of a
\* non-square image
C13_Witness ==
  /\ fragColor.written
  /\ backend = "webgl2"
  /\ OnEdge
  /\ fragment.aspectRatio # <<1, 1>>
  /\ fragColor.bloomColor[1] > 0

\* C14: a torn-down run of a mounted instance whose setup ends, by
\* abandoning or by a rejected await, leaves the view state (fallback,
\* error, loading flag) as it was.
C14_CancelledSetupSilent ==
  [][\A e \in Runs :
       (mounted /\ TornDown(e) /\ pc[e] \in Pending /\ pc'[e] = "done")
         => UNCHANGED viewVars]_vars

\* C15: every shader constant defined in both files has the same value in
\* SunburstGlowWebGL2.tsx as in SunburstGlow.tsx: whichever component shaded
\* the fragment, it shaded with the one parameter set of both files.
C15_ConstantsMatch ==
  fragColor.written =>
    \A name \in DOMAIN SunburstGlowConstants :
      /\ ShaderConstants[name] = SunburstGlowConstants[name]
      /\ ShaderConstants[name] = SunburstGlowWebGL2Constants[name]

\* C16: each of the three additive terms is non-negative in every channel,
\* so no channel of the output is below the sampled texel; the inner glow
\* is strictly positive strictly inside the radius; the output alpha is the
\* sampled alpha.
C16_OnlyBrightens ==
  fragColor.written =>
    /\ \A c \in 1..3 :
         /\ fragColor.glowContribution[c] >= 0
         /\ fragColor.bloomColor[c] >= 0
         /\ fragColor.innerGlowColor[c] >= 0
         /\ fragColor.color[c] >= fragment.originalColor[c]
         /\ StrictlyInside => fragColor.innerGlowColor[c] > 0
    /\ fragColor.color[4] = fragment.originalColor[4]

\* a fragment outside the radius was shaded with every sine at its minimum
\* and still gained glow and bloom in every channel
C16_Witness ==
  /\ fragColor.written
  /\ ~StrictlyInside
  /\ fragment.sinWave1 = 0 - Unit
  /\ fragment.sinWave2 = 0 - Unit
  /\ fragment.sinPulse = 0 - Unit
  /\ \A c \in 1..3 :
       fragColor.glowContribution[c] > 0 /\ fragColor.bloomColor[c] > 0

====
